---- MODULE Spec2Model ----
(***************************************************************************)
(* Model of perspective.ratelimiter.RateLimiter (src/perspective/          *)
(* ratelimiter.py): a fixed-window quota tracker and a FIFO admission gate *)
(* drained by an asyncio task.                                             *)
(*                                                                         *)
(* asyncio is cooperative: code between two awaits runs atomically.  The   *)
(* atomic steps are therefore                                              *)
(*   - acquire() up to its `await event.wait()`            (Acquire)       *)
(*   - acquire() resuming once its event is set            (AcquireReturn) *)
(*   - block()                                             (Block)         *)
(*   - _iter_queue() from its start to its sleep or end    (IterStart)     *)
(*   - _iter_queue() from the end of its sleep to its end  (IterWake)      *)
(*   - the monotonic clock advancing                       (Tick)          *)
(* Time is an integer; both time.monotonic() reads of one atomic step see  *)
(* the same instant, so asyncio.sleep(_reset_at - now) ends at _reset_at   *)
(* or later.                                                               *)
(***************************************************************************)
EXTENDS Integers, Sequences, FiniteSets, TLC

\* ---- constructor arguments (RateLimiter(period, limit)) ----
Limit == 2
Period == 2

\* ---- bounds of the exploration ----
MaxAcquires == 4
MaxBlocks == 1
MaxTime == 2
MaxRequests == 2
MaxCalls == 3
MaxCancels == 1

None == 0

Events == 1..MaxAcquires
Tasks == 1..MaxAcquires
Requests == 1..MaxRequests
Calls == 1..MaxCalls

\* the response statuses told apart by Client._make_request, and one other
Statuses == {200, 429, 500}

VARIABLES
    now,        \* time.monotonic()
    remaining,  \* self._remaining
    reset_at,   \* self._reset_at
    queue,      \* self._queue: sequence of event ids, left end first
    task,       \* self._task: None or the id of the task created last
    taskPc,     \* per _iter_queue task: "none", "ready", "sleeping", "done"
    wakeAt,     \* per task: the instant its asyncio.sleep ends, -1 if it never slept
    nTasks,     \* number of asyncio.create_task calls so far
    nEvents,    \* number of acquire() calls so far; call i owns event i
    setCount,   \* per event: number of Event.set() calls on it
    callerPc,   \* per acquire() call: "idle", "waiting", "returned", or
                \* "cancelled" while it waited
    enqAt,      \* history: per event, the instant of its acquire(), -1 before
    log,        \* history: the Event.set() calls in order, [ev, at, win]
    blocks,     \* history: the block() calls in order, [at, nsig, asleep]:
                \* the instant, the number of Event.set() calls made before
                \* it, and the tasks that were in their sleep at that instant
    last,       \* history: the last use of the quota tracker on its own,
                \* [op, run, ret, remaining, reset_at]: the operation, how
                \* many times in a row it was made, what is_rate_limited
                \* returned, and the tracker's fields before it
    nReqs,      \* number of Client._make_request calls so far
    req,        \* per _make_request call: [pc, ignore, ev, status, kind, exc,
                \* blocked]: "idle", "acquiring", "sent" or "done"; its
                \* ignore_ratelimits argument; its event in the gate (0: none);
                \* the response status; "return" or "raise"; the exception
                \* class raised; whether it called block()
    lnCalls,    \* perspective.py: number of _execute_ratelimited calls so far;
                \* call i has key i and its coroutine produces response i
    lqueue,     \* perspective.py: self._queue, the keys queued, first in front
    lvalues,    \* perspective.py: self._values, per key the response stored
                \* (0: no entry)
    lcurrent,   \* perspective.py: self._current_task, None or a task id
    lnTasks,    \* perspective.py: number of asyncio.create_task calls so far
    ltask,      \* perspective.py: per _iter_queue task [pc, cur]: "none",
                \* "ready", "awaiting" (its coroutine), "sleeping", "done";
                \* the key it popped last
    lcall,      \* perspective.py: per call [pc, set, ret]: "idle", "waiting",
                \* "returned"; Event.set() calls on its event; what it returned
    lorder,     \* history: the keys in the order their coroutines were awaited
    lerrors     \* history: number of errors caught and printed by _iter_queue

gateVars == <<now, remaining, reset_at, queue, task, taskPc, wakeAt, nTasks,
              nEvents, setCount, callerPc, enqAt, log, blocks>>

\* what the steps of the gate leave alone
clientVars == <<nReqs, req>>
legacyVars == <<lnCalls, lqueue, lvalues, lcurrent, lnTasks, ltask, lcall,
                lorder, lerrors>>
outsideGate == <<last, clientVars, legacyVars>>

vars == <<gateVars, outsideGate>>

\* ---------------------------------------------------------------------
\* Quota tracker
\* ---------------------------------------------------------------------

\* is_rate_limited with `remaining < 0` instead of `remaining <= 0`
IsRateLimitedOffByOne(rem, rst, t) ==
    IF rst <= t
    THEN [limited |-> FALSE, remaining |-> Limit, reset_at |-> t + Period]
    ELSE [limited |-> rem < 0, remaining |-> rem, reset_at |-> rst]

\* is_rate_limited whose rollover forgets to refill remaining
IsRateLimitedNoRefill(rem, rst, t) ==
    IF rst <= t
    THEN [limited |-> FALSE, remaining |-> rem, reset_at |-> t + Period]
    ELSE [limited |-> rem <= 0, remaining |-> rem, reset_at |-> rst]

\* is_rate_limited whose rollover returns what the stale count says
IsRateLimitedStaleReturn(rem, rst, t) ==
    IF rst <= t
    THEN [limited |-> rem <= 0, remaining |-> Limit, reset_at |-> t + Period]
    ELSE [limited |-> rem <= 0, remaining |-> rem, reset_at |-> rst]

\* is_rate_limited with `reset_at < now` instead of `reset_at <= now`
IsRateLimitedStrictReset(rem, rst, t) ==
    IF rst < t
    THEN [limited |-> FALSE, remaining |-> Limit, reset_at |-> t + Period]
    ELSE [limited |-> rem <= 0, remaining |-> rem, reset_at |-> rst]

\* The property is_rate_limited read at instant t: the value returned and
\* the tracker's fields after the read.
is_rate_limited(rem, rst, t) ==
    IF rst <= t
    THEN [limited |-> FALSE, remaining |-> Limit, reset_at |-> t + Period]
    ELSE [limited |-> rem <= 0, remaining |-> rem, reset_at |-> rst]

\* `self._remaining -= 1` that debits nothing
DebitNothing(rem) == rem

\* self._remaining -= 1
debit(rem) == rem - 1

\* block() that zeroes remaining but keeps the old reset time
BlockKeepsReset(rem, rst, t) == [remaining |-> 0, reset_at |-> rst]

\* block() at instant t
block(rem, rst, t) == [remaining |-> 0, reset_at |-> t + Period]

\* ---------------------------------------------------------------------
\* Admission queue
\* ---------------------------------------------------------------------

\* pop() from the right end instead of popleft()
PopRight(q) == [item |-> q[Len(q)], rest |-> SubSeq(q, 1, Len(q) - 1)]

\* reading the left end without removing it
PeekLeft(q) == [item |-> Head(q), rest |-> q]

\* self._queue.popleft(): the event returned and the queue left behind
popleft(q) == [item |-> Head(q), rest |-> Tail(q)]

\* `await event.wait()` that returns whether or not the event is set
WaitNeverWaits(sc) == TRUE

\* `await event.wait()` returns once Event.set() was called
wait_is_over(sc) == sc > 0

\* creating a task on every acquire()
AlwaysStart(h) == TRUE

\* `if self._task is None` in acquire()
must_start(h) == h = None

\* The while loop of _iter_queue at instant t: `out` collects the events
\* set, each with the instant and the window (reset_at) it was set in.
RECURSIVE drain(_, _, _, _, _)
drain(rem, rst, q, t, out) ==
    LET c == is_rate_limited(rem, rst, t) IN
    IF ~c.limited /\ q # <<>>
    THEN drain(debit(c.remaining), c.reset_at, popleft(q).rest, t,
               Append(out, [ev |-> popleft(q).item, at |-> t, win |-> c.reset_at]))
    ELSE [remaining |-> c.remaining, reset_at |-> c.reset_at, queue |-> q, out |-> out]

\* Event.set() applied to every event of `out`
set_events(sc, out) ==
    [e \in Events |-> sc[e] + Cardinality({k \in DOMAIN out : out[k].ev = e})]

\* ---------------------------------------------------------------------
\* Initial state and actions
\* ---------------------------------------------------------------------

Init ==
    /\ now = 0
    /\ remaining = Limit
    /\ reset_at = 0
    /\ queue = <<>>
    /\ task = None
    /\ taskPc = [t \in Tasks |-> "none"]
    /\ wakeAt = [t \in Tasks |-> -1]
    /\ nTasks = 0
    /\ nEvents = 0
    /\ setCount = [e \in Events |-> 0]
    /\ callerPc = [e \in Events |-> "idle"]
    /\ enqAt = [e \in Events |-> -1]
    /\ log = <<>>
    /\ blocks = <<>>
    /\ last = [op |-> "none", run |-> 0, ret |-> FALSE,
               remaining |-> Limit, reset_at |-> 0]
    /\ nReqs = 0
    /\ req = [i \in Requests |->
                [pc |-> "idle", ignore |-> FALSE, ev |-> 0, status |-> 0,
                 kind |-> "none", exc |-> "none", blocked |-> FALSE]]
    /\ lnCalls = 0
    /\ lqueue = <<>>
    /\ lvalues = [i \in Calls |-> 0]
    /\ lcurrent = None
    /\ lnTasks = 0
    /\ ltask = [k \in Calls |-> [pc |-> "none", cur |-> 0]]
    /\ lcall = [i \in Calls |-> [pc |-> "idle", set |-> 0, ret |-> 0]]
    /\ lorder = <<>>
    /\ lerrors = 0

\* time.monotonic() advances
Tick ==
    /\ now < MaxTime
    /\ now' = now + 1
    /\ UNCHANGED <<remaining, reset_at, queue, task, taskPc, wakeAt, nTasks,
                   nEvents, setCount, callerPc, enqAt, log, blocks>>
    /\ UNCHANGED outsideGate

\* acquire() up to `await event.wait()`, as its caller sees it
AcquireCall ==
    /\ LET e == nEvents + 1 IN
        /\ nEvents' = e
        /\ queue' = Append(queue, e)
        /\ callerPc' = [callerPc EXCEPT ![e] = "waiting"]
        /\ enqAt' = [enqAt EXCEPT ![e] = now]
    /\ IF must_start(task)
       THEN /\ nTasks' = nTasks + 1
            /\ task' = nTasks + 1
            /\ taskPc' = [taskPc EXCEPT ![nTasks + 1] = "ready"]
       ELSE UNCHANGED <<nTasks, task, taskPc>>
    /\ UNCHANGED <<now, remaining, reset_at, wakeAt, setCount, log, blocks>>

\* acquire() called by some caller of the gate
Acquire ==
    /\ nEvents < MaxAcquires
    /\ AcquireCall
    /\ UNCHANGED outsideGate

\* acquire() resumes from `await event.wait()` and returns, as its caller
\* sees it
AcquireResume(e) ==
    /\ callerPc[e] = "waiting"
    /\ wait_is_over(setCount[e])
    /\ callerPc' = [callerPc EXCEPT ![e] = "returned"]
    /\ UNCHANGED <<now, remaining, reset_at, queue, task, taskPc, wakeAt, nTasks,
                   nEvents, setCount, enqAt, log, blocks>>

\* acquire() returns to some caller of the gate
AcquireReturn(e) ==
    /\ AcquireResume(e)
    /\ UNCHANGED outsideGate

\* the _iter_queue tasks inside their asyncio.sleep
Asleep == {k \in Tasks : taskPc[k] = "sleeping"}

\* block() that also throws the queued waiters away
BlockCallDropsQueue ==
    /\ LET b == block(remaining, reset_at, now) IN
        /\ remaining' = b.remaining
        /\ reset_at' = b.reset_at
    /\ blocks' = Append(blocks, [at |-> now, nsig |-> Len(log),
                                 asleep |-> Asleep])
    /\ queue' = <<>>
    /\ UNCHANGED <<now, task, taskPc, wakeAt, nTasks, nEvents, setCount,
                   callerPc, enqAt, log>>

\* block(), as its caller sees it
BlockCall ==
    /\ LET b == block(remaining, reset_at, now) IN
        /\ remaining' = b.remaining
        /\ reset_at' = b.reset_at
    /\ blocks' = Append(blocks, [at |-> now, nsig |-> Len(log),
                                 asleep |-> Asleep])
    /\ UNCHANGED <<now, queue, task, taskPc, wakeAt, nTasks, nEvents, setCount,
                   callerPc, enqAt, log>>

\* block() called by some caller of the gate
Block ==
    /\ Len(blocks) < MaxBlocks
    /\ BlockCall
    /\ UNCHANGED outsideGate

\* The rest of _iter_queue from its while loop on, run at instant t by task k
DrainAndFinish(k, t) ==
    LET d == drain(remaining, reset_at, queue, t, <<>>) IN
    /\ remaining' = d.remaining
    /\ reset_at' = d.reset_at
    /\ queue' = d.queue
    /\ log' = log \o d.out
    /\ setCount' = set_events(setCount, d.out)
    /\ task' = None
    /\ taskPc' = [taskPc EXCEPT ![k] = "done"]

\* _iter_queue from its first line to its sleep, or to its end
IterStart(k) ==
    /\ taskPc[k] = "ready"
    /\ IF queue = <<>>
       THEN /\ task' = None
            /\ taskPc' = [taskPc EXCEPT ![k] = "done"]
            /\ UNCHANGED <<remaining, reset_at, queue, log, setCount, wakeAt>>
       ELSE LET c == is_rate_limited(remaining, reset_at, now) IN
            IF c.limited
            THEN /\ remaining' = c.remaining
                 /\ reset_at' = c.reset_at
                 /\ taskPc' = [taskPc EXCEPT ![k] = "sleeping"]
                 /\ wakeAt' = [wakeAt EXCEPT ![k] = c.reset_at]
                 /\ UNCHANGED <<queue, log, setCount, task>>
            ELSE /\ DrainAndFinish(k, now)
                 /\ UNCHANGED wakeAt
    /\ UNCHANGED <<now, nTasks, nEvents, callerPc, enqAt, blocks>>
    /\ UNCHANGED outsideGate

\* _iter_queue from the end of its sleep to its end; the clock has reached
\* the instant the sleep was set for
IterWake(k) ==
    /\ taskPc[k] = "sleeping"
    /\ LET t == IF now >= wakeAt[k] THEN now ELSE wakeAt[k] IN
        /\ now' = t
        /\ DrainAndFinish(k, t)
    /\ UNCHANGED <<wakeAt, nTasks, nEvents, callerPc, enqAt, blocks>>
    /\ UNCHANGED outsideGate

Next ==
    \/ Tick
    \/ Acquire
    \/ Block
    \/ \E e \in Events : AcquireReturn(e)
    \/ \E k \in Tasks : IterStart(k)
    \/ \E k \in Tasks : IterWake(k)

Spec == Init /\ [][Next]_vars

\* The event loop runs every ready task and fires every due timer; callers
\* and the HTTP collaborator are under no obligation to call again.  The
\* clock enables no step of the program but IterWake, which carries the
\* clock to its timer itself: once no task is live, the bound on Tick hides
\* nothing, since only Acquire could start a task again.
FairSpec ==
    /\ Spec
    /\ WF_vars(Tick)
    /\ WF_vars(\E e \in Events : AcquireReturn(e))
    /\ WF_vars(\E k \in Tasks : IterStart(k))
    /\ WF_vars(\E k \in Tasks : IterWake(k))

\* ---------------------------------------------------------------------
\* Cancellation of a caller: asyncio raises CancelledError inside
\* `await event.wait()`.  acquire() has no try/finally around the wait, so
\* the exception leaves acquire() and nothing else runs: the event stays in
\* _queue, and the caller never resumes.
\* ---------------------------------------------------------------------

Cancelled == {e \in Events : callerPc[e] = "cancelled"}

\* the caller of acquire() number e is cancelled before its event is set
Cancel(e) ==
    /\ Cardinality(Cancelled) < MaxCancels
    /\ callerPc[e] = "waiting"
    /\ ~wait_is_over(setCount[e])
    /\ callerPc' = [callerPc EXCEPT ![e] = "cancelled"]
    /\ UNCHANGED <<now, remaining, reset_at, queue, task, taskPc, wakeAt, nTasks,
                   nEvents, setCount, enqAt, log, blocks>>
    /\ UNCHANGED outsideGate

CancelNext ==
    \/ Next
    \/ \E e \in Events : Cancel(e)

\* The gate with callers that may be cancelled, the event loop running as
\* in FairSpec; nobody is obliged to cancel.
CancelSpec ==
    /\ Init /\ [][CancelNext]_vars
    /\ WF_vars(Tick)
    /\ WF_vars(\E e \in Events : AcquireReturn(e))
    /\ WF_vars(\E k \in Tasks : IterStart(k))
    /\ WF_vars(\E k \in Tasks : IterWake(k))

\* ---------------------------------------------------------------------
\* The quota tracker on its own: the three operations of the gate on
\* _remaining and _reset_at, made in any order from the constructed state
\* (the debit only where the code makes it, right after a check that
\* returned False).
\* ---------------------------------------------------------------------

\* the record of operation o, made on the tracker as it is now
Used(o, r) ==
    [op |-> o, run |-> IF last.op = o THEN 2 ELSE 1, ret |-> r,
     remaining |-> remaining, reset_at |-> reset_at]

\* a read of is_rate_limited
TrackerCheck ==
    /\ LET c == is_rate_limited(remaining, reset_at, now) IN
        /\ remaining' = c.remaining
        /\ reset_at' = c.reset_at
        /\ last' = Used("check", c.limited)
    /\ UNCHANGED <<now, queue, task, taskPc, wakeAt, nTasks, nEvents, setCount,
                   callerPc, enqAt, log, blocks>>
    /\ UNCHANGED <<clientVars, legacyVars>>

\* self._remaining -= 1, which the code runs only after a check returned False
TrackerDebit ==
    /\ last.op = "check" /\ ~last.ret
    /\ remaining' = debit(remaining)
    /\ last' = Used("debit", FALSE)
    /\ UNCHANGED <<now, reset_at, queue, task, taskPc, wakeAt, nTasks, nEvents,
                   setCount, callerPc, enqAt, log, blocks>>
    /\ UNCHANGED <<clientVars, legacyVars>>

\* block()
TrackerBlock ==
    /\ LET b == block(remaining, reset_at, now) IN
        /\ remaining' = b.remaining
        /\ reset_at' = b.reset_at
    /\ last' = Used("block", FALSE)
    /\ UNCHANGED <<now, queue, task, taskPc, wakeAt, nTasks, nEvents, setCount,
                   callerPc, enqAt, log, blocks>>
    /\ UNCHANGED <<clientVars, legacyVars>>

\* time.monotonic() advances between two operations
TrackerTick ==
    /\ now < MaxTime + Period
    /\ now' = now + 1
    /\ last' = Used("tick", FALSE)
    /\ UNCHANGED <<remaining, reset_at, queue, task, taskPc, wakeAt, nTasks,
                   nEvents, setCount, callerPc, enqAt, log, blocks>>
    /\ UNCHANGED <<clientVars, legacyVars>>

TrackerNext ==
    \/ TrackerCheck
    \/ TrackerDebit
    \/ TrackerBlock
    \/ TrackerTick

TrackerSpec == Init /\ [][TrackerNext]_vars

\* ---------------------------------------------------------------------
\* Client._make_request (src/perspective/wrapper.py) in front of the gate
\* ---------------------------------------------------------------------

\* the base class of each exception class
Base(c) ==
    CASE c = "PerspectiveQuotaExceeded" -> "PerspectiveException"
      [] c = "PerspectiveException" -> "Exception"
      [] OTHER -> "none"

\* isinstance(an exception of class c, k)
IsInstance(c, k) == k \in {c, Base(c), Base(Base(c))} \ {"none"}

\* _make_request that calls block() on every status but 200
MakeRequestBlocksOnAnyError(status, ignore) ==
    IF status = 200
    THEN [kind |-> "return", exc |-> "none", block |-> FALSE]
    ELSE IF status = 429
    THEN [kind |-> "raise", exc |-> "PerspectiveQuotaExceeded", block |-> ~ignore]
    ELSE [kind |-> "raise", exc |-> "PerspectiveException", block |-> ~ignore]

\* _make_request that raises the base class on 429
MakeRequestPlainOn429(status, ignore) ==
    IF status = 200
    THEN [kind |-> "return", exc |-> "none", block |-> FALSE]
    ELSE IF status = 429
    THEN [kind |-> "raise", exc |-> "PerspectiveException", block |-> ~ignore]
    ELSE [kind |-> "raise", exc |-> "PerspectiveException", block |-> FALSE]

\* What _make_request does with a response: return its data or raise, and
\* whether it calls self._rate_limiter.block() first.  resp.json() is taken
\* to return the body.
make_request_result(status, ignore) ==
    IF status = 200
    THEN [kind |-> "return", exc |-> "none", block |-> FALSE]
    ELSE IF status = 429
    THEN [kind |-> "raise", exc |-> "PerspectiveQuotaExceeded", block |-> ~ignore]
    ELSE [kind |-> "raise", exc |-> "PerspectiveException", block |-> FALSE]

\* _make_request(method, payload, ignore_ratelimits = ig) up to its first
\* await that waits: the acquire(), or the request itself
MakeRequest(ig) ==
    /\ nReqs < MaxRequests
    /\ nReqs' = nReqs + 1
    /\ IF ig
       THEN /\ req' = [req EXCEPT ![nReqs + 1].pc = "sent", ![nReqs + 1].ignore = TRUE]
            /\ UNCHANGED gateVars
       ELSE /\ AcquireCall
            /\ req' = [req EXCEPT ![nReqs + 1].pc = "acquiring",
                                  ![nReqs + 1].ev = nEvents + 1]
    /\ UNCHANGED <<last, legacyVars>>

\* acquire() returns and _make_request issues the request
SendRequest(i) ==
    /\ req[i].pc = "acquiring"
    /\ AcquireResume(req[i].ev)
    /\ req' = [req EXCEPT ![i].pc = "sent"]
    /\ UNCHANGED <<last, nReqs, legacyVars>>

\* the response arrives with status st and _make_request returns or raises
Response(i, st) ==
    /\ req[i].pc = "sent"
    /\ LET r == make_request_result(st, req[i].ignore) IN
        /\ req' = [req EXCEPT ![i].pc = "done", ![i].status = st,
                              ![i].kind = r.kind, ![i].exc = r.exc,
                              ![i].blocked = r.block]
        /\ IF r.block THEN BlockCall ELSE UNCHANGED gateVars
    /\ UNCHANGED <<last, nReqs, legacyVars>>

ClientNext ==
    \/ Tick
    \/ \E ig \in BOOLEAN : MakeRequest(ig)
    \/ \E i \in Requests : SendRequest(i)
    \/ \E i \in Requests : \E st \in Statuses : Response(i, st)
    \/ \E k \in Tasks : IterStart(k)
    \/ \E k \in Tasks : IterWake(k)

ClientSpec == Init /\ [][ClientNext]_vars

\* ---------------------------------------------------------------------
\* The token-keyed client of src/perspective/perspective.py
\* ---------------------------------------------------------------------

\* the except branch that also clears the handle
AfterFaultCleared(h) == None

\* self._current_task after `except Exception` has printed the error: the
\* assignment of line 223 was skipped
after_fault(h) == h

\* _execute_ratelimited up to `await event.wait()`
LegacyExecute ==
    /\ lnCalls < MaxCalls
    /\ lnCalls' = lnCalls + 1
    /\ lqueue' = Append(lqueue, lnCalls + 1)
    /\ lcall' = [lcall EXCEPT ![lnCalls + 1].pc = "waiting"]
    /\ IF lcurrent = None
       THEN /\ lnTasks' = lnTasks + 1
            /\ lcurrent' = lnTasks + 1
            /\ ltask' = [ltask EXCEPT ![lnTasks + 1].pc = "ready"]
       ELSE UNCHANGED <<lnTasks, lcurrent, ltask>>
    /\ UNCHANGED <<lvalues, lorder, lerrors>>
    /\ UNCHANGED <<gateVars, last, clientVars>>

\* _iter_queue at its `while len(self._queue) > 0`, entered at the start of
\* the task or after asyncio.sleep(1 / qps): it pops the head and awaits
\* its coroutine, or clears the handle and ends
LegacyIterTop(k) ==
    /\ ltask[k].pc \in {"ready", "sleeping"}
    /\ IF Len(lqueue) > 0
       THEN /\ lqueue' = Tail(lqueue)
            /\ ltask' = [ltask EXCEPT ![k] = [pc |-> "awaiting", cur |-> Head(lqueue)]]
            /\ lorder' = Append(lorder, Head(lqueue))
            /\ UNCHANGED lcurrent
       ELSE /\ lcurrent' = None
            /\ ltask' = [ltask EXCEPT ![k].pc = "done"]
            /\ UNCHANGED <<lqueue, lorder>>
    /\ UNCHANGED <<lnCalls, lvalues, lnTasks, lcall, lerrors>>
    /\ UNCHANGED <<gateVars, last, clientVars>>

\* `resp = await coro` ends: with a response, which is stored and
\* signaled, or with an exception (_make_request raises ConnectionError on
\* every status but 200), which `except Exception` prints
LegacyCoroEnds(k, ok) ==
    /\ ltask[k].pc = "awaiting"
    /\ IF ok
       THEN /\ lvalues' = [lvalues EXCEPT ![ltask[k].cur] = ltask[k].cur]
            /\ lcall' = [lcall EXCEPT ![ltask[k].cur].set = @ + 1]
            /\ ltask' = [ltask EXCEPT ![k].pc = "sleeping"]
            /\ UNCHANGED <<lcurrent, lerrors>>
       ELSE /\ lerrors' = lerrors + 1
            /\ lcurrent' = after_fault(lcurrent)
            /\ ltask' = [ltask EXCEPT ![k].pc = "done"]
            /\ UNCHANGED <<lvalues, lcall>>
    /\ UNCHANGED <<lnCalls, lqueue, lnTasks, lorder>>
    /\ UNCHANGED <<gateVars, last, clientVars>>

\* _execute_ratelimited returning self._values[key] without popping it
LegacyReturnKeepsValue(i) ==
    /\ lcall[i].pc = "waiting"
    /\ lcall[i].set > 0
    /\ lcall' = [lcall EXCEPT ![i].pc = "returned", ![i].ret = lvalues[i]]
    /\ UNCHANGED <<lnCalls, lqueue, lvalues, lcurrent, lnTasks, ltask, lorder,
                   lerrors>>
    /\ UNCHANGED <<gateVars, last, clientVars>>

\* _execute_ratelimited resumes from `await event.wait()` and returns
\* self._values.pop(key)
LegacyReturn(i) ==
    /\ lcall[i].pc = "waiting"
    /\ lcall[i].set > 0
    /\ lcall' = [lcall EXCEPT ![i].pc = "returned", ![i].ret = lvalues[i]]
    /\ lvalues' = [lvalues EXCEPT ![i] = 0]
    /\ UNCHANGED <<lnCalls, lqueue, lcurrent, lnTasks, ltask, lorder, lerrors>>
    /\ UNCHANGED <<gateVars, last, clientVars>>

LegacyNext ==
    \/ LegacyExecute
    \/ \E k \in Calls : LegacyIterTop(k)
    \/ \E k \in Calls : \E ok \in BOOLEAN : LegacyCoroEnds(k, ok)
    \/ \E i \in Calls : LegacyReturn(i)

LegacySpec == Init /\ [][LegacyNext]_vars

\* ---------------------------------------------------------------------
\* Properties
\* ---------------------------------------------------------------------

\* the number of Event.set() calls made in the window that ends at r
WindowSignals(r) == Cardinality({k \in DOMAIN log : log[k].win = r})

\* the tasks created and not yet finished
Live == {k \in Tasks : taskPc[k] \in {"ready", "sleeping"}}

InQueue(e) == \E i \in DOMAIN queue : queue[i] = e

\* C1: within one quota window (while reset_at keeps one value) at most
\* Limit waiters are signaled, whatever acquire(), block() and the clock do.
C1_AtMostLimitPerWindow ==
    \A k \in DOMAIN log : WindowSignals(log[k].win) <= Limit

\* a window has been used up and a waiter is still queued
C1_Witness ==
    /\ queue # <<>>
    /\ \E k \in DOMAIN log : WindowSignals(log[k].win) = Limit

\* C2: waiters are signaled in the order of their acquire() calls (event
\* ids are given in call order), across passes, windows and block().
C2_Fifo ==
    \A j, k \in DOMAIN log : j < k => log[j].ev < log[k].ev

\* three waiters signaled in two windows with a block() in between
C2_Witness ==
    /\ Len(log) >= 3
    /\ log[1].win # log[Len(log)].win
    /\ \E b \in DOMAIN blocks : 0 < blocks[b].nsig /\ blocks[b].nsig < Len(log)

\* C7: after block() at instant T no waiter is signaled before T + Period.
C7_NoSignalAfterBlock ==
    \A b \in DOMAIN blocks : \A k \in DOMAIN log :
        k > blocks[b].nsig => log[k].at >= blocks[b].at + Period

\* a block() made after some waiter was signaled, and a waiter signaled
\* after that block()
C7_Witness ==
    \E b \in DOMAIN blocks :
        /\ blocks[b].nsig > 0
        /\ Len(log) > blocks[b].nsig

\* C9: at most one _iter_queue task is live, the handle _task names it, and
\* acquire() creates a task only when the handle is None.
C9_SingleLoop ==
    /\ [](/\ Cardinality(Live) <= 1
          /\ (task = None <=> Live = {})
          /\ (task # None => Live = {task}))
    /\ [][nTasks' # nTasks => task = None]_vars

\* a second task is live, sleeping, with two waiters queued behind it: the
\* later acquire() calls found the handle set
C9_Witness ==
    /\ nTasks >= 2
    /\ \E k \in Live : taskPc[k] = "sleeping"
    /\ Len(queue) >= 2

\* C10: no event is set twice, and no event still in the queue is set.
C10_SetOnceAfterDequeue ==
    \A e \in Events :
        /\ setCount[e] <= 1
        /\ (InQueue(e) => setCount[e] = 0)

\* some events are set, others are still queued
C10_Witness ==
    /\ \E e \in Events : setCount[e] = 1
    /\ queue # <<>>

\* e was enqueued inside the Period after the block() that blocks[b] records
ForcedBy(e, b) ==
    blocks[b].at < enqAt[e] /\ enqAt[e] < blocks[b].at + Period

\* C3: under fair scheduling every waiter enqueued by acquire() is
\* eventually signaled and its acquire() returns, even if no further
\* acquire() arrives.
C3_EveryWaiterReleased ==
    \A e \in Events : (callerPc[e] = "waiting") ~> (callerPc[e] = "returned")

\* C4: whenever waiters are queued a pacing loop is active: the loop clears
\* its handle only when the queue is empty.
C4_LoopWhileQueued ==
    queue # <<>> => task # None

\* C5: a pass that opens a window with more than Limit waiters queued sets
\* exactly the first Limit of them, at that instant and in call order, and
\* the waiter signaled Limit places after waiter k is signaled no earlier
\* than the end of the window k was signaled in.
C5_ExcessWaitsForRollover ==
    /\ [](\A k \in DOMAIN log :
            (k + Limit) \in DOMAIN log => log[k + Limit].at >= log[k].win)
    /\ [][(blocks' = blocks /\ reset_at' # reset_at /\ Len(queue) > Limit) =>
            /\ Len(log') = Len(log) + Limit
            /\ queue' = SubSeq(queue, Limit + 1, Len(queue))
            /\ \A i \in 1..Limit :
                /\ log'[Len(log) + i].ev = queue[i]
                /\ log'[Len(log) + i].at = now'
                /\ log'[Len(log) + i].win = now' + Period]_vars

\* Limit + 1 acquire() calls made at one instant t on a fresh gate: the
\* first Limit signaled at t, the next one at t + Period or later
C5_Witness ==
    /\ Len(log) > Limit
    /\ \A i \in 1..(Limit + 1) : log[i].ev = i /\ enqAt[i] = enqAt[1]
    /\ \A i \in 1..Limit : log[i].at = enqAt[1]
    /\ log[Limit + 1].at >= enqAt[1] + Period

\* C6: a pass that starts with at most Limit waiters queued and the window
\* over (fresh gate, or reset_at reached) sets all of them in that step,
\* without sleeping and without the clock moving.
C6_NoSleepWithinQuota ==
    [][\A k \in Tasks :
        (/\ taskPc[k] = "ready" /\ taskPc'[k] # "ready"
         /\ queue # <<>> /\ Len(queue) <= Limit
         /\ reset_at <= now) =>
            /\ taskPc'[k] = "done"
            /\ wakeAt'[k] = -1
            /\ now' = now
            /\ queue' = <<>>
            /\ Len(log') = Len(log) + Len(queue)
            /\ \A i \in DOMAIN queue :
                /\ log'[Len(log) + i].ev = queue[i]
                /\ log'[Len(log) + i].at = now
                /\ setCount'[queue[i]] = 1]_vars

\* a task that never slept has finished, Limit waiters that called at one
\* instant were all signaled at that instant and the queue is empty
C6_Witness ==
    /\ Len(log) = Limit
    /\ queue = <<>>
    /\ nTasks = 1 /\ taskPc[1] = "done" /\ wakeAt[1] = -1
    /\ \A i \in 1..Limit : log[i].at = enqAt[i] /\ now = enqAt[i]

\* e is among the first Limit waiters of the queue
NearHead(e) == \E i \in 1..Limit : i <= Len(queue) /\ queue[i] = e

\* C8: an acquire() made inside the Period after a block() at T is not
\* released before T + Period, and is released by the window that opens
\* then: a waiter that is among the first Limit of the queue, with no
\* waiter signaled since the block(), is eventually signaled.
C8_ReleasedAtForcedReset ==
    /\ [](\A e \in Events : \A b \in DOMAIN blocks : \A k \in DOMAIN log :
            (log[k].ev = e /\ ForcedBy(e, b)) => log[k].at >= blocks[b].at + Period)
    /\ \A e \in Events : \A b \in 1..MaxBlocks :
        (/\ callerPc[e] = "waiting" /\ NearHead(e)
         /\ b \in DOMAIN blocks /\ ForcedBy(e, b)
         /\ blocks[b].nsig = Len(log)) ~> (setCount[e] > 0)

\* C11: a second read of is_rate_limited right after a first, with no
\* debit, no block() and no clock step between them, returns what the first
\* returned and changes neither remaining nor reset_at.
C11_CheckIdempotent ==
    [][(last'.op = "check" /\ last'.run = 2) =>
            /\ last'.ret = last.ret
            /\ remaining' = remaining
            /\ reset_at' = reset_at]_vars

\* two reads in a row at the instant of a rollover: the first refilled the
\* window, the second found it as the first left it
C11_Witness ==
    /\ last.op = "check" /\ last.run = 2
    /\ remaining = Limit
    /\ reset_at = now + Period

\* C12: 0 <= _remaining <= limit in every reachable state of the gate.
C12_RemainingInRange ==
    remaining >= 0 /\ remaining <= Limit

\* the drain has debited a window down to zero, with no block()
C12_Witness ==
    /\ remaining = 0
    /\ blocks = <<>>
    /\ WindowSignals(reset_at) = Limit

\* C18: a read of is_rate_limited at instant now, from remaining = r and
\* reset_at = s: if s <= now the window rolls over (remaining = limit,
\* reset_at = now + period) and the read returns False; otherwise it
\* returns r <= 0 and changes nothing.
C18_CheckMatchesReference ==
    last.op = "check" =>
        IF last.reset_at <= now
        THEN remaining = Limit /\ reset_at = now + Period /\ ~last.ret
        ELSE /\ last.ret = (last.remaining <= 0)
             /\ remaining = last.remaining
             /\ reset_at = last.reset_at

\* a read that rolled the window over although the stored count was zero
C18_Witness ==
    /\ last.op = "check"
    /\ last.reset_at <= now /\ last.reset_at > 0
    /\ last.remaining = 0

\* C19: block() leaves remaining = 0 and reset_at = now + period whatever
\* the state before; a second block() at the same instant changes nothing;
\* a read of is_rate_limited right after block() returns True.
C19_BlockIdempotent ==
    /\ [](last.op = "block" => remaining = 0 /\ reset_at = now + Period)
    /\ [][(last.op = "block" /\ last'.op = "block") =>
            remaining' = remaining /\ reset_at' = reset_at]_vars
    /\ [][(last.op = "block" /\ last'.op = "check") => last'.ret]_vars

\* two block() calls in a row, made after the clock had moved on from the
\* constructed state
C19_Witness ==
    /\ last.op = "block" /\ last.run = 2
    /\ remaining = 0
    /\ reset_at = now + Period /\ now > 0

\* the requests issued so far
Issued == {i \in Requests : req[i].pc \in {"sent", "done"}}

\* the requests whose response has been handled
Handled == {i \in Requests : req[i].pc = "done"}

C15_OutcomeByStatus ==
    \A i \in Handled :
        CASE req[i].status = 200 -> req[i].kind = "return"
          [] req[i].status = 429 ->
                /\ req[i].kind = "raise"
                /\ IsInstance(req[i].exc, "PerspectiveQuotaExceeded")
          [] OTHER ->
                /\ req[i].kind = "raise"
                /\ IsInstance(req[i].exc, "PerspectiveException")
                /\ ~IsInstance(req[i].exc, "PerspectiveQuotaExceeded")

\* two failures handled, one for quota exhaustion and one for another
\* status, raising exceptions a caller can tell apart
C15_Witness ==
    \E i, j \in Handled :
        /\ req[i].status = 429 /\ req[j].status \notin {200, 429}
        /\ req[i].exc # req[j].exc

\* the _iter_queue tasks of perspective.py created and not yet ended
LegacyLive == {k \in Calls : ltask[k].pc \in {"ready", "awaiting", "sleeping"}}

\* C16: a fault inside the pacing loop is caught and logged and leaves the
\* client able to start a loop again: after every _execute_ratelimited call
\* a pacing loop is live, also when an earlier pass ended in a fault.
C16_LoopRestartsAfterFault ==
    [][(lnCalls' # lnCalls) => LegacyLive' # {}]_vars

\* C17: a loop that makes its exhaustion check inside the window forced by
\* a block(), with waiters still queued, does not end its pass: it stays
\* alive to release them when the forced window ends.
C17_LoopOutlivesBlock ==
    [][\A k \in Tasks :
        (/\ taskPc[k] \in {"ready", "sleeping"}
         /\ queue' # <<>>
         /\ remaining' = 0 /\ now' < reset_at'
         /\ \E b \in DOMAIN blocks : reset_at' = blocks[b].at + Period)
        => taskPc'[k] # "done"]_vars

\* C20: acquire() appends one waiter and at most sets the handle, leaving
\* the tracker alone; block() writes remaining and reset_at only; whatever
\* pops a waiter, debits a permit or sets an event is a step of the pacing
\* loop.
C20_SingleWriter ==
    [][/\ (nEvents' # nEvents) =>
            /\ queue' = Append(queue, nEvents')
            /\ (task' = task \/ (task = None /\ task' # None))
            /\ remaining' = remaining /\ reset_at' = reset_at
            /\ log' = log /\ setCount' = setCount
       /\ (blocks' # blocks) =>
            /\ remaining' = 0 /\ reset_at' = now + Period
            /\ queue' = queue /\ task' = task /\ taskPc' = taskPc
            /\ log' = log /\ setCount' = setCount
       /\ (\/ Len(queue') < Len(queue)
           \/ log' # log
           \/ setCount' # setCount
           \/ (remaining' < remaining /\ blocks' = blocks)) =>
            \E k \in Tasks :
                taskPc[k] \in {"ready", "sleeping"} /\ taskPc'[k] = "done"]_vars

\* acquire(), block() and the pacing loop have all acted: waiters were
\* signaled, a block() was made, and waiters are queued behind a live loop
C20_Witness ==
    /\ log # <<>>
    /\ blocks # <<>>
    /\ queue # <<>>
    /\ Live # {}

\* C21: a caller cancelled before its event was set keeps its place in the
\* queue and its event is eventually set, like any other waiter's.
C21_CancelledWaiterReleased ==
    \A e \in Events : (callerPc[e] = "cancelled") ~> (setCount[e] > 0)

\* no block() was called while task k was in its sleep
UndisturbedSleep(k) == \A b \in DOMAIN blocks : k \notin blocks[b].asleep

\* the permits the exhaustion check at instant t leaves available
Permits(t) == is_rate_limited(remaining, reset_at, t).remaining

Min(a, b) == IF a <= b THEN a ELSE b

\* C22: a pass of _iter_queue that reaches its while loop with waiters
\* queued and without a block() during its sleep sets exactly
\* min(queue length, permits after the check or rollover) events, the ones
\* at the head of the queue, which is at least one; and every step that ends
\* a pass leaves _task at None.
C22_PassProgress ==
    [][\A k \in Tasks :
        (taskPc[k] \in {"ready", "sleeping"} /\ taskPc'[k] = "done") =>
            /\ task' = None
            /\ (queue # <<>> /\ UndisturbedSleep(k)) =>
                LET n == Len(log') - Len(log) IN
                /\ n = Min(Len(queue), Permits(now'))
                /\ n >= 1
                /\ queue' = SubSeq(queue, n + 1, Len(queue))
                /\ \A i \in 1..n : log'[Len(log) + i].ev = queue[i]]_vars

\* a pass that slept undisturbed has ended, having set exactly Limit events
\* when it woke and left a waiter queued
C22_Witness ==
    \E k \in Tasks :
        /\ taskPc[k] = "done" /\ wakeAt[k] >= 0 /\ UndisturbedSleep(k)
        /\ task = None /\ queue # <<>>
        /\ Cardinality({i \in DOMAIN log : log[i].at >= wakeAt[k]}) = Limit

\* the coroutines being awaited by an _iter_queue task
LegacyAwaited == {k \in Calls : ltask[k].pc = "awaiting"}

\* C23: in the token-keyed client at most one _iter_queue task is live and
\* at most one coroutine is being awaited; the coroutines are awaited in the
\* order of the _execute_ratelimited calls (keys are numbered in that
\* order), each once; a caller that returned got the response of its own
\* coroutine, and _values has no entry under its key any more.
C23_LegacyFifoCorrelated ==
    /\ Cardinality(LegacyLive) <= 1
    /\ Cardinality(LegacyAwaited) <= 1
    /\ \A a, b \in DOMAIN lorder : a < b => lorder[a] < lorder[b]
    /\ \A i \in Calls :
        lcall[i].pc = "returned" => lcall[i].ret = i /\ lvalues[i] = 0

\* two callers have returned while a third caller waits and its coroutine
\* is being awaited
C23_Witness ==
    /\ lcall[1].pc = "returned" /\ lcall[2].pc = "returned"
    /\ lcall[3].pc = "waiting"
    /\ \E k \in LegacyAwaited : ltask[k].cur = 3

====
